---- MODULE Spec2Model ----
(***************************************************************************)
(* A model of CarbonFitter (src/src/fitting_tinygp.py): the attributes of  *)
(* one fitter object, and one action per public method.                    *)
(*                                                                         *)
(* Times are integers counting 1/TicksPerYear of a year, so that           *)
(* observation times off the whole-year grid can be represented.  The      *)
(* external collaborators (the box model, the optimizer, the ensemble      *)
(* sampler) appear only through the calls the fitter makes on them.        *)
(***************************************************************************)
EXTENDS Integers, Sequences, FiniteSets, TLC

VARIABLES
    attrs,                  \* names of the attributes defined on self so far
    steady_state_production,
    time_data, d14c_data, d14c_data_error, start, end,
    resolution, burn_in_time, time_grid_fine, time_oversample, offset,
    annual, mask,
    production, control_points_time, stdout,
    call,                   \* the method call just made, with its arguments
    raised,                 \* the exception that call ended with, or "none"
    jit_cache, eval_out,
    lp,
    minimize_call, soln,
    returned,               \* what the call just made returned
    pc, sampler, p0, sampler_calls

dataVars == <<time_data, d14c_data, d14c_data_error, start, end>>
gridVars == <<resolution, burn_in_time, time_grid_fine, time_oversample, offset,
              annual, mask>>
prepVars == <<production, control_points_time, stdout>>
jitVars  == <<jit_cache, eval_out>>
fitVars  == <<minimize_call, soln>>
sampVars == <<pc, sampler, p0, sampler_calls>>
vars == <<attrs, steady_state_production, dataVars, gridVars, prepVars, call,
          raised, jitVars, lp, fitVars, returned, sampVars>>

----------------------------------------------------------------------------
(* Bounds of the model *)

TicksPerYear == 2
MaxObs == 3

(* Program constants *)

BurnInYears == 1000
DefaultResolution == 1000
DefaultOversample == 1000
DefaultNumOffset == 4
DefaultDenseYears == 3
DefaultGapYears == 5
DenseWindowYears == 2

Year(y) == y * TicksPerYear

----------------------------------------------------------------------------
(* Sequence and array helpers *)

SeqMin(s) == CHOOSE x \in {s[i] : i \in 1..Len(s)} :
                 \A j \in 1..Len(s) : x <= s[j]
SeqMax(s) == CHOOSE x \in {s[i] : i \in 1..Len(s)} :
                 \A j \in 1..Len(s) : x >= s[j]

RECURSIVE SeqSum(_)
SeqSum(s) == IF s = <<>> THEN 0 ELSE Head(s) + SeqSum(Tail(s))

\* s[:k] for k >= 0
Take(s, k) == SubSeq(s, 1, IF k < Len(s) THEN k ELSE Len(s))

\* s[:-1]
DropLast(s) == IF Len(s) = 0 THEN <<>> ELSE SubSeq(s, 1, Len(s) - 1)

\* ceil(a / b) for b > 0
CeilDiv(a, b) == IF a <= 0 THEN 0 ELSE ((a - 1) \div b) + 1

\* arange(lo, hi, step) as the grid [first, step, num]: the points
\* first + i*step for i < num, which are lo, lo+step, ... below hi; empty when
\* step < 0 <= hi - lo.  step = 0 raises in the caller.
Arange(lo, hi, step) ==
    [first |-> lo, step |-> step,
     num   |-> IF step > 0 THEN CeilDiv(hi - lo, step)
                           ELSE CeilDiv(lo - hi, -step)]

GridLen(g) == g.num
GridAt(g, i) == g.first + (i - 1) * g.step
GridSeq(g) == [i \in 1..g.num |-> GridAt(g, i)]
EmptyGrid == [first |-> 0, step |-> 1, num |-> 0]

\* linspace(a, b, num) as [first, last, num]: num evenly spaced points from a
\* to b inclusive; num = 1 gives the single point a, num = 0 the empty grid.
Linspace(a, b, num) ==
    [first |-> a, last |-> IF num = 1 THEN a ELSE b, num |-> num]

\* mean(x) as the fraction [num, den]; den = 0 is the NaN of an empty mean.
Mean(x) == [num |-> SeqSum(x), den |-> Len(x)]

\* in1d(a, b): for each point of the grid a, whether it occurs in the array b
In1d(a, b) ==
    [i \in 1..GridLen(a) |-> \E j \in 1..Len(b) : b[j] = GridAt(a, i)]

CountTrue(m) == Cardinality({i \in 1..Len(m) : m[i]})

\* the empty dict
EmptyMap == [k \in {} |-> "None"]

----------------------------------------------------------------------------
(* The input files the model reads *)

ObsTimes == {Year(100), Year(100) + 1, Year(101), Year(110), Year(200)}

ExampleTimes == <<Year(100), Year(101), Year(110), Year(200)>>

IsSorted(s) == \A i \in 1..(Len(s) - 1) : s[i] <= s[i + 1]

TimeColumns ==
    {ExampleTimes} \cup
    UNION {{s \in [1..n -> ObsTimes] : IsSorted(s)} : n \in 1..MaxObs}

D14cSlopes == {0, 6}

\* A data file: three columns of equal length, uncertainties > 0.
File(times, slope) ==
    [year     |-> times,
     d14c     |-> [i \in 1..Len(times) |-> slope * i],
     sig_d14c |-> [i \in 1..Len(times) |-> 1 + (i % 2)]]

----------------------------------------------------------------------------
(* State after construction *)

EquilibratedRate == 7

NoCall == [op |-> "__init__"]

Init ==
    /\ attrs = {"steady_state_production"}
    /\ steady_state_production = EquilibratedRate
    /\ time_data = <<>> /\ d14c_data = <<>> /\ d14c_data_error = <<>>
    /\ start = 0 /\ end = 0
    /\ resolution = 0 /\ burn_in_time = Linspace(0, 0, 0)
    /\ time_grid_fine = EmptyGrid
    /\ time_oversample = 0 /\ offset = Mean(<<>>)
    /\ annual = EmptyGrid /\ mask = <<>>
    /\ production = "unset" /\ control_points_time = <<>> /\ stdout = <<>>
    /\ call = NoCall /\ raised = "none"
    /\ jit_cache = EmptyMap /\ eval_out = <<>>
    /\ lp = [kind |-> "finite", value |-> 0]
    /\ minimize_call = <<>> /\ soln = <<>>
    /\ returned = <<>>
    /\ pc = "idle" /\ sampler = <<>> /\ p0 = 0 /\ sampler_calls = <<>>

----------------------------------------------------------------------------
(* load_data *)

DataAttrs == {"time_data", "d14c_data", "d14c_data_error", "start", "end",
              "resolution", "burn_in_time"}
GridAttrs == {"time_grid_fine", "time_oversample", "offset", "annual", "mask"}

\* in1d(annual, time_data)[:-1]
AlignmentMask(ann, times) == DropLast(In1d(ann, times))

load_data(file, res, fine_grid, oversample, num_offset) ==
    LET t  == file.year
        s  == SeqMin(t)
        e  == SeqMax(t)
    IN  /\ call' = [op |-> "load_data", resolution |-> res,
                    fine_grid |-> fine_grid, num_offset |-> num_offset,
                    rows |-> Len(t)]
        /\ time_data' = t
        /\ d14c_data' = file.d14c
        /\ d14c_data_error' = file.sig_d14c
        /\ start' = s
        /\ end' = e
        /\ resolution' = res
        /\ burn_in_time' = Linspace(s - Year(BurnInYears), s, res)
        /\ IF fine_grid = 0
           THEN \* arange from start to end (numpy scalars) with a zero step
                \* has an infinite length and raises ValueError; the
                \* assignments above stay
                /\ raised' = "ValueError"
                /\ attrs' = attrs \cup DataAttrs
                /\ UNCHANGED <<time_grid_fine, time_oversample, offset, annual,
                               mask>>
           ELSE /\ raised' = "none"
                /\ attrs' = attrs \cup DataAttrs \cup GridAttrs
                /\ time_grid_fine' = Arange(s, e, fine_grid)
                /\ time_oversample' = oversample
                /\ offset' = Mean(Take(file.d14c, num_offset))
                /\ annual' = Arange(s, e + Year(1), Year(1))
                /\ mask' = AlignmentMask(annual', t)
        /\ UNCHANGED <<steady_state_production, prepVars, jitVars, lp, fitVars,
                       returned, sampVars>>

----------------------------------------------------------------------------
(* prepare_function *)

\* The keyword arguments of one call: a function from the keys passed to
\* their values.  dense_years and gap_years are in years.
NoKwargs == EmptyMap

\* try: kwargs[key] except: default
Get(kw, key, default) == IF key \in DOMAIN kw THEN kw[key] ELSE default

\* custom_function and f are read in one try block: both fall back to their
\* defaults as soon as either key is missing.
CustomFunctionOf(kw) ==
    IF {"custom_function", "f"} \subseteq DOMAIN kw
    THEN kw["custom_function"] ELSE "False"
FOf(kw) ==
    IF {"custom_function", "f"} \subseteq DOMAIN kw THEN kw["f"] ELSE "None"

DenseYearsOf(kw) == Get(kw, "dense_years", DefaultDenseYears)
GapYearsOf(kw) == Get(kw, "gap_years", DefaultGapYears)

WalkedTimesAll(times) == times

\* The observation times the control-point loop visits: range(len(time_data[:-1]))
WalkedTimes(times) == DropLast(times)

\* One iteration of the loop for the observation time t.
GreedyStep(cps, t, dense, gap) ==
    LET last == cps[Len(cps)]
    IN  IF t - last <= Year(DenseWindowYears) /\ t - last > 0
        THEN Append(cps, t + Year(dense))
        ELSE IF t >= last + Year(gap)
             THEN Append(cps, t)
             ELSE cps

RECURSIVE GreedyWalk(_, _, _, _, _)
GreedyWalk(cps, times, i, dense, gap) ==
    IF i > Len(times) THEN cps
    ELSE GreedyWalk(GreedyStep(cps, times[i], dense, gap), times, i + 1,
                    dense, gap)

\* array[array <= bound]
RECURSIVE KeepUpTo(_, _)
KeepUpTo(s, bound) ==
    IF s = <<>> THEN <<>>
    ELSE IF Head(s) <= bound THEN <<Head(s)>> \o KeepUpTo(Tail(s), bound)
         ELSE KeepUpTo(Tail(s), bound)

LinearControlPointsUntruncated(times, s, e, dense, gap) ==
    GreedyWalk(<<s - Year(1), s>>, WalkedTimes(times), 1, dense, gap)

\* lines 100-108: the greedy pass, then the points beyond end dropped
LinearControlPoints(times, s, e, dense, gap) ==
    KeepUpTo(GreedyWalk(<<s - Year(1), s>>, WalkedTimes(times), 1, dense, gap),
             e)

ProductionMiyakeLast(kw) ==
    IF Get(kw, "production", "None") = "miyake"
    THEN IF Get(kw, "fit_solar", "False") = "True"
         THEN "miyake_event_flexible_solar"
         ELSE "miyake_event_fixed_solar"
    ELSE IF CustomFunctionOf(kw) = "True" /\ FOf(kw) # "None"
         THEN "f" ELSE "None"

\* self.production after the miyake and custom_function branches
ProductionBeforeControlPoints(kw) ==
    LET afterMiyake ==
            IF Get(kw, "production", "None") = "miyake"
            THEN IF Get(kw, "fit_solar", "False") = "True"
                 THEN "miyake_event_flexible_solar"
                 ELSE "miyake_event_fixed_solar"
            ELSE "None"
    IN  IF CustomFunctionOf(kw) = "True" /\ FOf(kw) # "None"
        THEN "f" ELSE afterMiyake

FallbackNotice ==
    "No matching production function, use default miyake production with fixed solar cycle (11 yrs) and amplitude (0.18)"

\* The end of the call: the fallback when no branch has set self.production
Finish(prod) ==
    IF prod = "None"
    THEN /\ production' = "miyake_event_fixed_solar"
         /\ stdout' = <<FallbackNotice>>
    ELSE /\ production' = prod
         /\ stdout' = <<>>

prepare_function(kw) ==
    LET before == ProductionBeforeControlPoints(kw)
        use_cp == Get(kw, "use_control_points", "False") = "True"
        interp == Get(kw, "interp", "linear")
    IN  /\ call' = [op |-> "prepare_function", kwargs |-> kw]
        /\ IF use_cp /\ interp = "linear"
           THEN IF "start" \in attrs
                THEN /\ control_points_time' =
                            LinearControlPoints(time_data, start, end,
                                DenseYearsOf(kw), GapYearsOf(kw))
                     /\ attrs' = attrs \cup {"production", "control_points_time"}
                     /\ Finish("interp_linear")
                     /\ raised' = "none"
                ELSE \* self.start does not exist yet
                     /\ raised' = "AttributeError"
                     /\ production' = before
                     /\ attrs' = attrs \cup {"production"}
                     /\ stdout' = <<>>
                     /\ UNCHANGED control_points_time
           ELSE IF use_cp /\ interp = "gp"
           THEN IF "annual" \in attrs
                THEN /\ control_points_time' = GridSeq(annual)
                     /\ attrs' = attrs \cup {"production", "control_points_time"}
                     /\ Finish("interp_gp")
                     /\ raised' = "none"
                ELSE \* self.annual does not exist yet
                     /\ raised' = "AttributeError"
                     /\ production' = before
                     /\ attrs' = attrs \cup {"production"}
                     /\ stdout' = <<>>
                     /\ UNCHANGED control_points_time
           ELSE /\ Finish(before)
                /\ attrs' = attrs \cup {"production"}
                /\ raised' = "none"
                /\ UNCHANGED control_points_time
        /\ UNCHANGED <<steady_state_production, dataVars, gridVars, jitVars, lp,
                       fitVars, returned, sampVars>>

----------------------------------------------------------------------------
(* The jit-compiled evaluations: dc14, loss_chi2, log_like, log_prob and   *)
(* the objectives of fit_cp.  Each is compiled with self as static         *)
(* argument: a call traces the method once per (self, shape of params) and *)
(* keeps the trace, in which every attribute of self read while tracing is *)
(* a constant; later calls with the same key run the kept trace.  Methods  *)
(* called inside a trace are traced again with it.                         *)

\* Number of positional parameters each production function takes after the
\* time; the caller's f takes *args.
AcceptsParams(prod, cps, n) ==
    CASE prod = "miyake_event_fixed_solar"    -> n = 4
      [] prod = "miyake_event_flexible_solar" -> n = 6
      [] prod = "interp_linear"               -> n = Len(cps)
      [] prod = "interp_gp"                   -> n = Len(cps) + 1
      [] prod = "f"                           -> TRUE
      [] OTHER                                -> FALSE

\* The shape of an elementwise operation on arrays of lengths a and b:
\* -1 when the shapes are incompatible, which raises.
Broadcast(a, b) ==
    IF a = -1 \/ b = -1 THEN -1
    ELSE IF a = b THEN a
    ELSE IF a = 1 THEN b
    ELSE IF b = 1 THEN a
    ELSE -1

LikelihoodFns == {"loss_chi2", "loss_chi2_avg", "log_like", "log_prob",
                  "gp_likelihood", "gp_likelihood_avg"}
GPFns == {"gp_likelihood", "gp_likelihood_avg"}

SimulatorAttrs == {"burn_in_time", "production", "annual", "time_oversample",
                   "mask", "offset"}

\* dc14: the curve on the annual grid has one value per interval, the mask
\* selects among them.
dc14_length(m) == CountTrue(m)

\* What a trace of fn holds of self: the attributes read while tracing, and
\* rows, the number of rows of the file loaded at that moment.
Snapshot(fn) ==
    [production |-> production,
     control_points_time |->
        IF production \in {"interp_linear", "interp_gp"} \/ fn \in GPFns
        THEN control_points_time ELSE <<>>,
     burn_in_time |-> burn_in_time,
     annual |-> annual,
     time_oversample |-> time_oversample,
     mask |-> mask,
     offset |-> offset,
     observed |-> IF fn \in LikelihoodFns THEN DropLast(d14c_data) ELSE <<>>,
     errors |-> IF fn \in LikelihoodFns THEN DropLast(d14c_data_error)
                ELSE <<>>,
     rows |-> Len(time_data)]

\* (observed[:-1] - curve) / errors[:-1]
ResidualShape(snap) ==
    Broadcast(Broadcast(Len(snap.observed), dc14_length(snap.mask)),
              Len(snap.errors))

\* The exception gp.condition(control_points) ends with, or "none", for m
\* values against the control points cps: the two shapes must agree.
ConditionError(cps, m) ==
    IF m # Len(cps) THEN "TypeError" ELSE "none"

\* The exception interp_gp ends with, or "none", for n parameters: one
\* parameter is squeezed to a 0-d array that params[:-1] cannot slice, none
\* leaves params[-1] out of range; then the GP is conditioned on all but
\* the last.
InterpGPError(cps, n) ==
    IF n < 2 THEN "IndexError" ELSE ConditionError(cps, n - 1)

\* The exception gp_neg_log_likelihood ends with, or "none", for an array of
\* n parameters: params[-1] is read before self.control_points_time, and
\* the GP is conditioned on params[:-1].
GPNegLogLikelihoodError(n) ==
    IF n = 0 THEN "IndexError"
    ELSE IF "control_points_time" \notin attrs THEN "AttributeError"
    ELSE ConditionError(control_points_time, n - 1)

\* The exception the call production(t, *params) with n parameters ends
\* with, or "none": a missing or surplus positional argument (or calling
\* None) is a TypeError, control points and values of different lengths in
\* jnp.interp a ValueError.
ProductionError(prod, cps, n) ==
    IF prod = "interp_gp" THEN InterpGPError(cps, n)
    ELSE IF AcceptsParams(prod, cps, n) THEN "none"
    ELSE IF prod = "interp_linear" THEN "ValueError"
    ELSE "TypeError"

\* The exception tracing fn for n parameters ends with, or "none", in the
\* order the method reads self: dc14 runs the burn-in (burn_in_time, then
\* production, which is called there) before it reads annual,
\* time_oversample, mask and offset; the likelihoods call dc14 first; the GP
\* objectives call loss_chi2 first, then gp_neg_log_likelihood.
TraceError(fn, n) ==
    IF ~({"burn_in_time", "production"} \subseteq attrs)
         THEN "AttributeError"
    ELSE IF ProductionError(production, control_points_time, n) # "none"
         THEN ProductionError(production, control_points_time, n)
    ELSE IF ~(SimulatorAttrs \subseteq attrs) THEN "AttributeError"
    ELSE IF fn \in LikelihoodFns /\ ResidualShape(Snapshot(fn)) = -1
         THEN "TypeError"
    ELSE IF fn \in GPFns THEN GPNegLogLikelihoodError(n)
    ELSE "none"

Result(fn, n, snap, hit) ==
    [fn |-> fn, nparams |-> n, trace |-> snap, cache_hit |-> hit,
     curve_length |-> dc14_length(snap.mask),
     shape |-> IF fn \in LikelihoodFns THEN ResidualShape(snap) ELSE -1]

CacheKey(fn, n) == <<fn, n>>

\* One call fn(params) with n parameters: its effect on the cache, what it
\* returns, and the exception it ends with.
Evaluate(fn, n) ==
    IF CacheKey(fn, n) \in DOMAIN jit_cache
    THEN /\ eval_out' = Result(fn, n, jit_cache[CacheKey(fn, n)], TRUE)
         /\ raised' = "none"
         /\ UNCHANGED jit_cache
    ELSE IF TraceError(fn, n) # "none"
    THEN /\ raised' = TraceError(fn, n)
         /\ eval_out' = <<>>
         /\ UNCHANGED jit_cache
    ELSE /\ jit_cache' = (CacheKey(fn, n) :> Snapshot(fn)) @@ jit_cache
         /\ eval_out' = Result(fn, n, Snapshot(fn), FALSE)
         /\ raised' = "none"

evaluate(fn, n) ==
    /\ call' = [op |-> fn, nparams |-> n]
    /\ Evaluate(fn, n)
    /\ UNCHANGED <<attrs, steady_state_production, dataVars, gridVars,
                   prepVars, lp, fitVars, returned, sampVars>>

----------------------------------------------------------------------------
(* log_prior *)

NegInf == [kind |-> "-inf"]
Finite(x) == [kind |-> "finite", value |-> x]

\* a + b on finite numbers and -inf
ExtAdd(a, b) ==
    IF a.kind = "finite" /\ b.kind = "finite"
    THEN Finite(a.value + b.value) ELSE NegInf

RECURSIVE ExtSum(_)
ExtSum(s) == IF s = <<>> THEN Finite(0) ELSE ExtAdd(Head(s), ExtSum(Tail(s)))

PriorTermNegativeOnly(x) == IF x < 0 THEN NegInf ELSE Finite(0)

\* where(params <= 0, -inf, 0), one element
PriorTerm(x) == IF x <= 0 THEN NegInf ELSE Finite(0)

LogPrior(params) == ExtSum([i \in 1..Len(params) |-> PriorTerm(params[i])])

log_prior(params) ==
    /\ call' = [op |-> "log_prior", params |-> params]
    /\ lp' = LogPrior(params)
    /\ raised' = "none"
    /\ UNCHANGED <<attrs, steady_state_production, dataVars, gridVars,
                   prepVars, jitVars, fitVars, returned, sampVars>>

----------------------------------------------------------------------------
(* fit_cp *)

InitialGuessNoMean(cps, gp, rate) == [i \in 1..Len(cps) |-> rate]

\* steady_state_production * ones(len(control_points_time) [+ 1])
InitialGuess(cps, gp, rate) ==
    [i \in 1..(IF gp THEN Len(cps) + 1 ELSE Len(cps)) |-> rate * 1]

\* tuple([(low_bound, None)] * len(steady_state))
Bounds(x0, low_bound) == [i \in 1..Len(x0) |-> <<low_bound, "None">>]

Objective(gp, avg) ==
    IF gp THEN IF avg THEN "gp_likelihood_avg" ELSE "gp_likelihood"
    ELSE IF avg THEN "loss_chi2_avg" ELSE "loss_chi2"

\* The result records scipy.optimize.minimize may return
OptimizeResults == {[success |-> ok] : ok \in BOOLEAN}

fit_cp(low_bound, gp, avg, k) ==
    /\ call' = [op |-> "fit_cp", low_bound |-> low_bound, gp |-> gp,
                avg |-> avg, k |-> k]
    /\ IF "control_points_time" \notin attrs
       THEN /\ raised' = "AttributeError"
            /\ minimize_call' = <<>> /\ soln' = <<>> /\ returned' = <<>>
            /\ UNCHANGED jitVars
       ELSE LET x0 == InitialGuess(control_points_time, gp,
                                   steady_state_production)
            IN  /\ minimize_call' =
                       [fun |-> Objective(gp, avg), x0 |-> x0,
                        args |-> IF avg THEN <<k>> ELSE <<>>,
                        bounds |-> Bounds(x0, low_bound),
                        method |-> IF gp THEN "None" ELSE "L-BFGS-B"]
                \* the optimizer evaluates the objective at x0
                /\ Evaluate(Objective(gp, avg), Len(x0))
                /\ IF raised' = "none"
                   THEN soln' \in OptimizeResults
                   ELSE soln' = <<>>
                /\ returned' = soln'
    /\ UNCHANGED <<attrs, steady_state_production, dataVars, gridVars,
                   prepVars, lp, sampVars>>

----------------------------------------------------------------------------
(* sampling.  The steps of one call, in program order; pc is the position  *)
(* in the method.  The ensemble sampler is an object with a chain that     *)
(* run_mcmc extends by one entry per step and reset empties; walker        *)
(* positions are opaque values.                                            *)

WalkersPerDim == 5

\* initial + 1e-5 * rand(nwalkers, ndim)
JitteredStart == [at |-> "initial + jitter"]

\* The walker positions a run can end at
WalkerStates == {[at |-> "moved", to |-> w] : w \in {1, 2}}

Target(log_like) == IF log_like THEN "log_like" ELSE "log_prob"

NWalkers(ndim) == WalkersPerDim * ndim

ProductionStartStale(start_p0, burnin_end) == start_p0

\* p0, lp, _ = sampler.run_mcmc(p0, burnin): p0 for the production run
ProductionStart(start_p0, burnin_end) == burnin_end

\* run_mcmc(from, nsteps) on the sampler smp: nsteps more chain entries
RunMcmc(smp, from, nsteps) ==
    [smp EXCEPT !.chain = @ \o [i \in 1..nsteps |-> [from |-> from]]]

Reset(smp) == [smp EXCEPT !.chain = <<>>]

sampling_create(ndim, burnin, prod_steps, log_like) ==
    /\ pc = "idle"
    /\ call' = [op |-> "sampling", ndim |-> ndim, burnin |-> burnin,
                production |-> prod_steps, log_like |-> log_like]
    /\ sampler' = [nwalkers |-> NWalkers(ndim), ndim |-> ndim,
                   log_prob_fn |-> Target(log_like), chain |-> <<>>]
    /\ p0' = JitteredStart
    /\ sampler_calls' = <<>>
    /\ returned' = <<>>
    /\ raised' = "none"
    /\ pc' = "burnin"
    /\ UNCHANGED <<attrs, steady_state_production, dataVars, gridVars,
                   prepVars, jitVars, lp, fitVars>>

sampling_burnin ==
    /\ pc = "burnin"
    \* the sampler evaluates its target on the walkers
    /\ Evaluate(sampler.log_prob_fn, sampler.ndim)
    /\ IF raised' = "none"
       THEN \E final \in WalkerStates :
              /\ sampler' = RunMcmc(sampler, p0, call.burnin)
              /\ sampler_calls' = Append(sampler_calls,
                     [op |-> "run_mcmc", p0 |-> p0, nsteps |-> call.burnin,
                      result |-> final])
              /\ p0' = ProductionStart(p0, final)
              /\ pc' = "reset"
       ELSE /\ pc' = "idle"
            /\ UNCHANGED <<sampler, sampler_calls, p0>>
    /\ UNCHANGED <<attrs, steady_state_production, dataVars, gridVars,
                   prepVars, call, lp, fitVars, returned>>

sampling_reset ==
    /\ pc = "reset"
    /\ sampler' = Reset(sampler)
    /\ sampler_calls' = Append(sampler_calls, [op |-> "reset"])
    /\ pc' = "production"
    /\ UNCHANGED <<attrs, steady_state_production, dataVars, gridVars,
                   prepVars, call, raised, jitVars, lp, fitVars, returned, p0>>

sampling_production ==
    /\ pc = "production"
    /\ Evaluate(sampler.log_prob_fn, sampler.ndim)
    /\ \E final \in WalkerStates :
          /\ sampler' = RunMcmc(sampler, p0, call.production)
          /\ sampler_calls' = Append(sampler_calls,
                 [op |-> "run_mcmc", p0 |-> p0, nsteps |-> call.production,
                  result |-> final])
    /\ pc' = "return"
    /\ UNCHANGED <<attrs, steady_state_production, dataVars, gridVars,
                   prepVars, call, lp, fitVars, returned, p0>>

sampling_return ==
    /\ pc = "return"
    /\ returned' = sampler
    /\ pc' = "idle"
    /\ UNCHANGED <<attrs, steady_state_production, dataVars, gridVars,
                   prepVars, call, raised, jitVars, lp, fitVars, sampler, p0,
                   sampler_calls>>

----------------------------------------------------------------------------
(* Specification of load_data alone: every file with the default grid      *)
(* parameters, and a few files with every combination of grid parameters.  *)

Resolutions == {0, 1, 3}
FineSteps == {-1, 0, 1}
NumOffsets == {0, 1, MaxObs + 2}

GridFiles == {File(<<Year(100), Year(101)>>, sl) : sl \in D14cSlopes}

LoadDefault ==
    \E t \in TimeColumns :
        load_data(File(t, 6), DefaultResolution, 1, DefaultOversample,
                  DefaultNumOffset)

LoadWithGrid ==
    \E f \in GridFiles, r \in Resolutions, fg \in FineSteps, k \in NumOffsets :
        load_data(f, r, fg, DefaultOversample, k)

NextLoad == LoadDefault \/ LoadWithGrid

SpecLoad == Init /\ [][NextLoad]_vars

----------------------------------------------------------------------------
(* Specification of configuration: a few files, loaded with a fine-grid    *)
(* step of 1 or of 0 (which raises after start and end are stored and      *)
(* before the annual grid is), and every combination of the recognised     *)
(* options, with dense_years and gap_years positive, zero and negative.    *)

PrepTimes ==
    {ExampleTimes,
     <<Year(100), Year(100), Year(101)>>,
     <<Year(100), Year(101), Year(101)>>,
     <<Year(100), Year(100) + 1, Year(101)>>,
     <<Year(100), Year(110), Year(200)>>,
     <<Year(100), Year(101), Year(110)>>,
     <<Year(101), Year(110), Year(200)>>,
     <<Year(100), Year(100) + 1>>}

CustomChoices ==
    {NoKwargs,
     [custom_function |-> "True", f |-> "f"],
     [custom_function |-> "True", f |-> "None"]}
ControlChoices ==
    {NoKwargs,
     [use_control_points |-> "True"],
     [use_control_points |-> "True", interp |-> "linear", dense_years |-> 1,
      gap_years |-> 2],
     [use_control_points |-> "True", dense_years |-> 0, gap_years |-> 0],
     [use_control_points |-> "True", dense_years |-> -5],
     [use_control_points |-> "True", gap_years |-> -1],
     [use_control_points |-> "True", interp |-> "gp"],
     [use_control_points |-> "True", interp |-> "cubic"]}
MiyakeChoices ==
    {NoKwargs,
     [production |-> "miyake"],
     [production |-> "miyake", fit_solar |-> "True"]}

KwargsSet ==
    {c @@ u @@ m :
        c \in CustomChoices, u \in ControlChoices, m \in MiyakeChoices}

\* The series loaded with a fine-grid step of 0
PrepTimesRaising ==
    {<<Year(100), Year(101), Year(110)>>,
     <<Year(101), Year(110), Year(200)>>}

LoadForPrepare ==
    \/ \E t \in PrepTimes :
            load_data(File(t, 6), DefaultResolution, 1, DefaultOversample,
                      DefaultNumOffset)
    \/ \E t \in PrepTimesRaising :
            load_data(File(t, 6), DefaultResolution, 0, DefaultOversample,
                      DefaultNumOffset)

Prepare == \E kw \in KwargsSet : prepare_function(kw)

NextPrepare == LoadForPrepare \/ Prepare

SpecPrepare == Init /\ [][NextPrepare]_vars

----------------------------------------------------------------------------
(* Specification of evaluation across reconfiguration: two files, loaded   *)
(* with a fine-grid step of 1 or of 0 (which raises part-way), two         *)
(* production functions taking four parameters, and the three evaluations. *)

JitTimes == {ExampleTimes, <<Year(100), Year(100), Year(101)>>}
JitKwargs == {[production |-> "miyake"], [use_control_points |-> "True"]}
JitFns == {"dc14", "loss_chi2", "log_like"}
BurstParams == 4

JitFineSteps == {0, 1}

LoadForJit ==
    \E t \in JitTimes, fg \in JitFineSteps :
        load_data(File(t, 6), DefaultResolution, fg, DefaultOversample,
                  DefaultNumOffset)

PrepareForJit == \E kw \in JitKwargs : prepare_function(kw)

EvaluateJit == \E fn \in JitFns : evaluate(fn, BurstParams)

NextJit == LoadForJit \/ PrepareForJit \/ EvaluateJit

SpecJit == Init /\ [][NextJit]_vars

----------------------------------------------------------------------------
(* Specification of log_prior: every parameter vector up to MaxParams      *)
(* entries over a few values around zero.                                  *)

MaxParams == 3
ParamValues == {-2, -1, 0, 1, 2}
ParamVectors == UNION {[1..n -> ParamValues] : n \in 0..MaxParams}

LogPriorCall == \E params \in ParamVectors : log_prior(params)

NextPrior == LogPriorCall

SpecPrior == Init /\ [][NextPrior]_vars

----------------------------------------------------------------------------
(* Specification of fit_cp: one file, the two interpolating production     *)
(* functions and the burst model, and every combination of the flags.      *)

FitTimes == {<<Year(100), Year(101), Year(110)>>}
FitKwargs == {[use_control_points |-> "True"],
              [use_control_points |-> "True", interp |-> "gp"],
              [production |-> "miyake"]}
LowBounds == {0, 1}

LoadForFit ==
    \E t \in FitTimes :
        load_data(File(t, 6), DefaultResolution, 1, DefaultOversample,
                  DefaultNumOffset)

PrepareForFit == \E kw \in FitKwargs : prepare_function(kw)

FitCp ==
    \E lb \in LowBounds, gp \in BOOLEAN, avg \in BOOLEAN :
        fit_cp(lb, gp, avg, 1)

NextFit == LoadForFit \/ PrepareForFit \/ FitCp

SpecFit == Init /\ [][NextFit]_vars

----------------------------------------------------------------------------
(* Specification of sampling: one file, the caller's function and the      *)
(* burst model, walkers of up to MaxDim dimensions, runs of up to MaxSteps *)
(* steps.  The fitter is single-threaded: no other method runs while       *)
(* sampling is under way.                                                  *)

MaxDim == 2
MaxSteps == 2

SamplingKwargs == {[custom_function |-> "True", f |-> "f"],
                   [production |-> "miyake"]}

LoadForSampling ==
    /\ pc = "idle"
    /\ load_data(File(<<Year(100), Year(101), Year(110)>>, 6),
                 DefaultResolution, 1, DefaultOversample, DefaultNumOffset)

PrepareForSampling ==
    /\ pc = "idle"
    /\ \E kw \in SamplingKwargs : prepare_function(kw)

SamplingCall ==
    \E ndim \in 1..MaxDim, burnin \in 1..MaxSteps, prod_steps \in 1..MaxSteps,
       log_like \in BOOLEAN :
        sampling_create(ndim, burnin, prod_steps, log_like)

NextSampling ==
    \/ LoadForSampling
    \/ PrepareForSampling
    \/ SamplingCall
    \/ sampling_burnin
    \/ sampling_reset
    \/ sampling_production
    \/ sampling_return

SpecSampling == Init /\ [][NextSampling]_vars

----------------------------------------------------------------------------
(* Claims about load_data *)

Loaded == call.op = "load_data" /\ raised = "none"

StrictlyIncreasing(s) == \A i \in 1..(Len(s) - 1) : s[i] < s[i + 1]

\* C2: after load_data on any series with weakly or strictly increasing
\* times, the mask has len(annual) - 1 entries, of which len(series) - 1
\* are True.
C2_MaskCountsAnySeries ==
    Loaded =>
        /\ Len(mask) = GridLen(annual) - 1
        /\ CountTrue(mask) = Len(time_data) - 1

\* C6: load_data called with resolution < 2, a fine-grid step <= 0 or
\* num_offset greater than the number of rows ends with an error.
C6_MalformedGridRejected ==
    (/\ call.op = "load_data"
     /\ \/ call.resolution < 2
        \/ call.fine_grid <= 0
        \/ call.num_offset > call.rows)
    => raised # "none"

----------------------------------------------------------------------------
(* Claims about prepare_function *)

Prepared == call.op = "prepare_function" /\ raised = "none"

Has(kw, key, value) == key \in DOMAIN kw /\ kw[key] = value

\* The rows of the configuration table
RowCustom(kw) ==
    /\ Has(kw, "custom_function", "True")
    /\ "f" \in DOMAIN kw /\ kw["f"] # "None"
RowMiyakeFlexible(kw) ==
    Has(kw, "production", "miyake") /\ Has(kw, "fit_solar", "True")
RowMiyakeFixed(kw) ==
    Has(kw, "production", "miyake") /\ ~Has(kw, "fit_solar", "True")
RowLinear(kw) ==
    /\ Has(kw, "use_control_points", "True")
    /\ ("interp" \in DOMAIN kw => kw["interp"] = "linear")
RowGP(kw) ==
    Has(kw, "use_control_points", "True") /\ Has(kw, "interp", "gp")
NoRow(kw) ==
    ~(RowCustom(kw) \/ RowMiyakeFlexible(kw) \/ RowMiyakeFixed(kw)
        \/ RowLinear(kw) \/ RowGP(kw))

NoticePrinted == stdout = <<FallbackNotice>>

\* C5, as stated: after prepare_function the active production function is
\* the one of each table row the options match, and the fixed-solar fallback
\* is selected with its notice exactly when no row matched.
C5_EveryMatchingRowSelected ==
    Prepared =>
        LET kw == call.kwargs
        IN  /\ RowCustom(kw) => production = "f"
            /\ RowMiyakeFlexible(kw) =>
                   production = "miyake_event_flexible_solar"
            /\ RowMiyakeFixed(kw) => production = "miyake_event_fixed_solar"
            /\ RowLinear(kw) => production = "interp_linear"
            /\ RowGP(kw) => production = "interp_gp"
            /\ NoticePrinted <=> NoRow(kw)
            /\ NoRow(kw) => production = "miyake_event_fixed_solar"

\* C5, amended: when the options match several rows the control-point row
\* wins over the custom-function row, which wins over the miyake rows; with
\* one matching row it is the one active; the fallback and its notice come
\* exactly when no row matched.
C5_LastMatchingRowSelected ==
    Prepared =>
        LET kw == call.kwargs
        IN  /\ production =
                 IF RowLinear(kw) THEN "interp_linear"
                 ELSE IF RowGP(kw) THEN "interp_gp"
                 ELSE IF RowCustom(kw) THEN "f"
                 ELSE IF RowMiyakeFlexible(kw)
                      THEN "miyake_event_flexible_solar"
                 ELSE "miyake_event_fixed_solar"
            /\ NoticePrinted <=> NoRow(kw)

C5_Witness ==
    /\ Prepared
    /\ RowCustom(call.kwargs) /\ RowMiyakeFixed(call.kwargs)
    /\ ~Has(call.kwargs, "use_control_points", "True")
    /\ production = "f"
    /\ ~NoticePrinted

Interpolating == Prepared /\ production \in {"interp_linear", "interp_gp"}

InWindow(s, lo, hi) == \A i \in 1..Len(s) : lo <= s[i] /\ s[i] <= hi

\* C9, as stated: the control-point times of an interpolation-based
\* production function are strictly increasing and lie in [start, end].
C9_ControlPointsInWindow ==
    Interpolating =>
        /\ StrictlyIncreasing(control_points_time)
        /\ InWindow(control_points_time, start, end)

\* C9, amended: right after prepare_function has configured the linear
\* variant, the control-point times begin with start - 1 year, then start,
\* and none exceeds end; all but the first lie in [start, end] when
\* dense_years >= 0, and they are strictly increasing when dense_years >= 0
\* and gap_years > 0.  Right after it has configured the GP variant they are
\* the stored annual grid, which is strictly increasing; and whenever
\* load_data completes, the annual grid lies in [start, end + 1 year).
C9_ControlPointsOrdered ==
    /\ (Interpolating /\ production = "interp_linear") =>
            /\ Len(control_points_time) >= 2
            /\ control_points_time[1] = start - Year(1)
            /\ control_points_time[2] = start
            /\ \A i \in 1..Len(control_points_time) :
                    control_points_time[i] <= end
            /\ (DenseYearsOf(call.kwargs) >= 0 =>
                    InWindow(Tail(control_points_time), start, end))
            /\ (DenseYearsOf(call.kwargs) >= 0 /\ GapYearsOf(call.kwargs) > 0
                    => StrictlyIncreasing(control_points_time))
    /\ (Interpolating /\ production = "interp_gp") =>
            /\ control_points_time = GridSeq(annual)
            /\ StrictlyIncreasing(control_points_time)
    /\ Loaded => InWindow(GridSeq(annual), start, end + Year(1) - 1)

C9_Witness ==
    /\ Interpolating /\ production = "interp_linear"
    /\ time_data = <<Year(100), Year(100) + 1, Year(101)>>
    /\ DenseYearsOf(call.kwargs) = 3
    /\ control_points_time = <<Year(99), Year(100)>>

ExampleConfigured ==
    /\ Interpolating /\ production = "interp_linear"
    /\ time_data = ExampleTimes
    /\ DenseYearsOf(call.kwargs) = 3 /\ GapYearsOf(call.kwargs) = 5

\* C1, as stated: the greedy pass walks the observation times, and for
\* [100, 101, 110, 200] with dense_years = 3, gap_years = 5 gives
\* [99, 100, 104, 110, 200].
C1_ExampleWithLastObservation ==
    ExampleConfigured =>
        control_points_time =
            <<Year(99), Year(100), Year(104), Year(110), Year(200)>>

\* The greedy pass of the specification over the array obs, from the back:
\* the control points after the first n observation times.
RECURSIVE SpecPass(_, _, _, _, _)
SpecPass(obs, n, s, dense, gap) ==
    IF n = 0 THEN <<s - Year(1), s>>
    ELSE LET acc == SpecPass(obs, n - 1, s, dense, gap)
             d   == obs[n] - acc[Len(acc)]
         IN  IF 0 < d /\ d <= Year(2) THEN acc \o <<obs[n] + Year(dense)>>
             ELSE IF d >= Year(gap) THEN acc \o <<obs[n]>>
             ELSE acc

\* C1, amended: the greedy pass walks every observation time but the last;
\* for [100, 101, 110, 200] with dense_years = 3, gap_years = 5 it gives
\* [99, 100, 104, 110].
C1_GreedyPassWithoutLast ==
    /\ ExampleConfigured =>
           control_points_time = <<Year(99), Year(100), Year(104), Year(110)>>
    /\ (Interpolating /\ production = "interp_linear") =>
           LET all == SpecPass(time_data, Len(time_data) - 1, start,
                               DenseYearsOf(call.kwargs),
                               GapYearsOf(call.kwargs))
           IN  control_points_time =
                   SelectSeq(all, LAMBDA x : x <= end)

C1_Witness ==
    /\ ExampleConfigured
    /\ Len(control_points_time) = 4
    /\ control_points_time[4] = Year(110)

----------------------------------------------------------------------------
(* Claims about the evaluations *)

Evaluated == call.op \in JitFns /\ raised = "none"

\* C3: the curve dc14 returns has len(series) - 1 entries, and loss_chi2 and
\* log_like return a value only when the curve and the truncated observation
\* arrays have the same length.
C3_CurveMatchesObservations ==
    Evaluated =>
        /\ eval_out.curve_length = eval_out.trace.rows - 1
        /\ eval_out.fn \in LikelihoodFns =>
               /\ eval_out.curve_length = Len(eval_out.trace.observed)
               /\ eval_out.curve_length = Len(eval_out.trace.errors)

\* C10: every evaluation that returns used the production function, control
\* points, grids, mask, offset and data the fitter holds at that moment.
C10_EvaluationUsesCurrentConfiguration ==
    Evaluated => eval_out.trace = Snapshot(eval_out.fn)

----------------------------------------------------------------------------
(* Claims about log_prior *)

\* C4: log_prior is 0 when every parameter is strictly positive and -inf
\* when at least one is <= 0, whatever the length of the vector.
C4_LogPriorZeroOrNegInf ==
    call.op = "log_prior" =>
        /\ (\A i \in 1..Len(call.params) : call.params[i] > 0)
               => lp = Finite(0)
        /\ (\E i \in 1..Len(call.params) : call.params[i] <= 0)
               => lp = NegInf

C4_Witness ==
    /\ call.op = "log_prior"
    /\ call.params = <<0, -1, 2>>
    /\ lp = NegInf

----------------------------------------------------------------------------
(* Claims about fit_cp *)

MinimizeCalled == call.op = "fit_cp" /\ minimize_call # <<>>

GuessAndBounds(extra) ==
    /\ Len(minimize_call.x0) = Len(control_points_time) + extra
    /\ \A i \in 1..Len(minimize_call.x0) :
           minimize_call.x0[i] = steady_state_production
    /\ Len(minimize_call.bounds) = Len(minimize_call.x0)
    /\ \A i \in 1..Len(minimize_call.bounds) :
           minimize_call.bounds[i] = <<call.low_bound, "None">>

\* C8, as stated: the guess has the extra GP-mean entry, and the objective
\* is the GP one, exactly when interp_gp is the active production function.
C8_ExtraEntryWhenGPActive ==
    (MinimizeCalled /\ raised = "none") =>
        /\ GuessAndBounds(IF production = "interp_gp" THEN 1 ELSE 0)
        /\ minimize_call.fun \in GPFns <=> production = "interp_gp"
        /\ returned = soln

\* C8, amended: the guess has the extra GP-mean entry, and the objective is
\* the GP one, exactly when the caller passes gp=True, whichever production
\* function is active; the rest as stated.
C8_ExtraEntryWhenGPFlag ==
    MinimizeCalled =>
        /\ GuessAndBounds(IF call.gp THEN 1 ELSE 0)
        /\ minimize_call.fun \in GPFns <=> call.gp
        /\ minimize_call.fun \in
               {"gp_likelihood", "gp_likelihood_avg", "loss_chi2",
                "loss_chi2_avg"}
        /\ raised = "none" => returned = soln /\ soln \in OptimizeResults

C8_Witness ==
    /\ MinimizeCalled /\ raised = "none"
    /\ call.gp /\ production = "miyake_event_fixed_solar"
    /\ Len(minimize_call.x0) = 4
    /\ minimize_call.fun = "gp_likelihood_avg"

----------------------------------------------------------------------------
(* Claims about sampling *)

Sampling == call.op = "sampling"

\* C7: sampling creates a sampler of 5 x len(params) walkers on log_like
\* when the flag is set and on log_prob otherwise, runs the burn-in from
\* initial + jitter, resets, then runs the production phase from the
\* positions the burn-in ended at, and returns the sampler with a chain of
\* production samples only.
C7_SamplingProtocol ==
    /\ (Sampling /\ pc # "idle") =>
           /\ sampler.nwalkers = 5 * call.ndim
           /\ sampler.ndim = call.ndim
           /\ sampler.log_prob_fn =
                  IF call.log_like THEN "log_like" ELSE "log_prob"
    /\ (Sampling /\ pc = "burnin") => sampler_calls = <<>>
    /\ (Sampling /\ pc \in {"reset", "production", "return"}) =>
           /\ sampler_calls[1].op = "run_mcmc"
           /\ sampler_calls[1].p0 = JitteredStart
           /\ sampler_calls[1].nsteps = call.burnin
    /\ (Sampling /\ pc = "reset") =>
           /\ Len(sampler_calls) = 1
           /\ Len(sampler.chain) = call.burnin
    /\ (Sampling /\ pc \in {"production", "return"}) =>
           sampler_calls[2].op = "reset"
    /\ (Sampling /\ pc = "production") =>
           Len(sampler_calls) = 2 /\ sampler.chain = <<>>
    /\ (Sampling /\ pc = "return") =>
           /\ Len(sampler_calls) = 3
           /\ sampler_calls[3].op = "run_mcmc"
           /\ sampler_calls[3].p0 = sampler_calls[1].result
           /\ sampler_calls[3].nsteps = call.production
    /\ (Sampling /\ returned # <<>>) =>
           /\ returned = sampler
           /\ Len(returned.chain) = call.production
           /\ \A i \in 1..Len(returned.chain) :
                  returned.chain[i].from = sampler_calls[1].result

C7_Witness ==
    /\ Sampling /\ pc = "idle" /\ returned # <<>>
    /\ call.ndim = 2 /\ call.burnin = 2 /\ call.production = 1
    /\ call.log_like
    /\ returned.nwalkers = 10
    /\ Len(returned.chain) = 1

====
